---- MODULE Spec2Model ----
(***************************************************************************)
(* Bottom-up enumerative synthesis over the regex-like string language of  *)
(* string_compress.py: StringTree programs, the StringLanguage grammar     *)
(* (repeat, group, initial, grow, interpret, render), the observational    *)
(* equivalence filter and the search loop bottom_up_explicit.              *)
(*                                                                         *)
(* Characters are modelled by their code points, so a Python string is a   *)
(* sequence of naturals and a repetition count is a natural as well.       *)
(* The optional child reference of a StringTree is a sequence of at most   *)
(* one element (<<>> for None).                                            *)
(***************************************************************************)
EXTENDS Integers, Sequences, FiniteSets

VARIABLES terminals, nums, outputs, programs, previous, result, round, pc

vars == <<terminals, nums, outputs, programs, previous, result, round, pc>>

(* ------------------------------ bounds --------------------------------- *)

\* number of rounds of the while-True loop that are explored
MaxRounds == 2

\* longest target string drawn from TargetChars
MaxTargetLen == 2

(* ---------------------------- characters ------------------------------- *)

ord == [a |-> 97, b |-> 98, c |-> 99, z |-> 122, lp |-> 40, rp |-> 41, zero |-> 48]

\* str(n) for a natural n: its decimal digits
RECURSIVE str(_)
str(n) == IF n < 10 THEN <<ord.zero + n>> ELSE str(n \div 10) \o <<ord.zero + (n % 10)>>

\* n * s for an integer n and a string s
RECURSIVE Times(_, _)
Times(n, s) == IF n <= 0 THEN <<>> ELSE s \o Times(n - 1, s)

(* ----------------------------- StringTree ------------------------------ *)

None == <<>>

StringTree(content, name, child) == [content |-> content, name |-> name, child |-> child]

(* --------------------------- StringLanguage ---------------------------- *)

rulesRepeatOnly == <<"repeat">>

rules == <<"repeat", "group">>

repeat(expr) == [i \in 1..Len(nums) |-> StringTree(nums[i], "repeat", <<expr>>)]

group(expr) == [i \in 1..Len(terminals) |-> StringTree(terminals[i], "group", <<expr>>)]

initialSkipFirst == [i \in 1..(Len(terminals) - 1) |-> StringTree(terminals[i + 1], "terminal", None)]

initial == [i \in 1..Len(terminals) |-> StringTree(terminals[i], "terminal", None)]

rule(r, expr) == IF r = "repeat" THEN repeat(expr) ELSE group(expr)

RECURSIVE ApplyRules(_, _)
ApplyRules(i, program) ==
    IF i > Len(rules) THEN <<>>
    ELSE rule(rules[i], program) \o ApplyRules(i + 1, program)

growOmitSelf(program) == ApplyRules(1, program)

\* what the body of the for loop of grow yields for one program
growOne(program) == <<program>> \o ApplyRules(1, program)

\* the sequence the generator yields: the k-th element is found in the block of
\* the program it was derived from
grow(ps) ==
    IF ps = <<>> THEN <<>>
    ELSE LET w == Len(growOne(ps[1]))
         IN  [k \in 1..(Len(ps) * w) |-> growOne(ps[((k - 1) \div w) + 1])[((k - 1) % w) + 1]]

RECURSIVE interpretGroupAfter(_)
interpretGroupAfter(node) ==
    CASE node.name = "terminal" -> <<node.content>>
      [] node.name = "repeat"   -> Times(node.content, interpretGroupAfter(node.child[1]))
      [] node.name = "group"    -> interpretGroupAfter(node.child[1]) \o <<node.content>>

RECURSIVE interpret(_)
interpret(node) ==
    CASE node.name = "terminal" -> <<node.content>>
      [] node.name = "repeat"   -> Times(node.content, interpret(node.child[1]))
      [] node.name = "group"    -> <<node.content>> \o interpret(node.child[1])

RECURSIVE render(_)
render(node) ==
    CASE node.name = "terminal" -> <<node.content>>
      [] node.name = "repeat"   ->
            str(node.content) \o <<ord.lp>> \o render(node.child[1]) \o <<ord.rp>>
      [] node.name = "group"    ->
            <<node.content>> \o <<ord.lp>> \o render(node.child[1]) \o <<ord.rp>>

(* ------------------- filter_observationally_equivalent ----------------- *)

\* the loop with a seen set that is not carried from one half to the next
RECURSIVE filterRangeLocal(_, _, _, _)
filterRangeLocal(ps, lo, hi, seen) ==
    IF lo > hi THEN [kept |-> <<>>, seen |-> seen]
    ELSE IF lo = hi
    THEN LET output == interpret(ps[lo])
         IN  IF output \notin seen
             THEN [kept |-> <<ps[lo]>>, seen |-> seen \cup {output}]
             ELSE [kept |-> <<>>, seen |-> seen]
    ELSE LET mid   == (lo + hi) \div 2
             left  == filterRangeLocal(ps, lo, mid, seen)
             right == filterRangeLocal(ps, mid + 1, hi, seen)
         IN  [kept |-> left.kept \o right.kept, seen |-> right.seen]

\* the loop over programs[lo..hi], entered with the set seen; the range is split
\* in halves, the second half entered with the set the first half leaves
RECURSIVE filterRange(_, _, _, _)
filterRange(ps, lo, hi, seen) ==
    IF lo > hi THEN [kept |-> <<>>, seen |-> seen]
    ELSE IF lo = hi
    THEN LET output == interpret(ps[lo])
         IN  IF output \notin seen
             THEN [kept |-> <<ps[lo]>>, seen |-> seen \cup {output}]
             ELSE [kept |-> <<>>, seen |-> seen]
    ELSE LET mid   == (lo + hi) \div 2
             left  == filterRange(ps, lo, mid, seen)
             right == filterRange(ps, mid + 1, hi, left.seen)
         IN  [kept |-> left.kept \o right.kept, seen |-> right.seen]

\* the filter with the scan order reversed: the last program of each output is kept
filterKeepLast(ps) ==
    LET n   == Len(ps)
        rev == [i \in 1..n |-> ps[n + 1 - i]]
        k   == filterRange(rev, 1, n, {}).kept
    IN  [i \in 1..Len(k) |-> k[Len(k) + 1 - i]]

filter_observationally_equivalent(ps) == filterRange(ps, 1, Len(ps), {}).kept

(* --------------------------- bottom_up_explicit ------------------------ *)

extendReplace(ps, new) == new

\* list.extend: the list followed by the new elements
extend(ps, new) == ps \o new

matchLength(program, target) == Len(interpret(program)) = Len(target)

\* the test of the return statement
match(program, target) == interpret(program) = target

\* index of the program the for loop returns: the first one that matches
firstMatch(ps, target) ==
    CHOOSE i \in 1..Len(ps) :
        match(ps[i], target) /\ \A j \in 1..(i - 1) : ~match(ps[j], target)

\* the (terminals, nums) configurations of StringLanguage that are explored
Configs ==
    { <<<<ord.a, ord.b, ord.c>>, <<2, 3, 4>>>>,
      <<<<ord.a, ord.b>>, <<2, 3>>>>,
      <<<<ord.b, ord.a>>, <<3, 2>>>>,
      <<<<ord.a>>, <<2>>>>,
      <<<<ord.a, ord.b>>, <<>>>>,
      <<<<>>, <<2, 3>>>> }

TargetChars == {ord.a, ord.b, ord.z}

RECURSIVE StringsUpTo(_)
StringsUpTo(n) ==
    IF n = 0 THEN {<<>>}
    ELSE LET shorter == StringsUpTo(n - 1)
         IN  shorter \cup {Append(s, ch) : s \in shorter, ch \in TargetChars}

ScenarioTargets ==
    { <<ord.a, ord.a, ord.a>>,
      <<ord.a, ord.b, ord.a, ord.b, ord.a, ord.b>>,
      <<ord.a, ord.a, ord.a, ord.a>>,
      <<ord.a, ord.b, ord.a>>,
      <<ord.b, ord.a, ord.b, ord.a>> }

Targets == StringsUpTo(MaxTargetLen) \cup ScenarioTargets

Init ==
    /\ \E cfg \in Configs : terminals = cfg[1] /\ nums = cfg[2]
    /\ outputs \in Targets
    /\ programs = initial
    /\ previous = <<>>
    /\ result = None
    /\ round = 0
    /\ pc = "expand"

\* programs.extend(list(language.grow(programs)))
Expand ==
    /\ pc = "expand"
    /\ round < MaxRounds
    /\ programs' = extend(programs, grow(programs))
    /\ previous' = programs
    /\ round' = round + 1
    /\ pc' = "collapse"
    /\ UNCHANGED <<terminals, nums, outputs, result>>

\* programs = list(filter_observationally_equivalent(language, programs, inputs))
Collapse ==
    /\ pc = "collapse"
    /\ programs' = filter_observationally_equivalent(programs)
    /\ pc' = "check"
    /\ UNCHANGED <<terminals, nums, outputs, previous, result, round>>

\* the for loop reaches a program whose output is the target: return program
CheckReturn ==
    /\ pc = "check"
    /\ \E i \in 1..Len(programs) : match(programs[i], outputs)
    /\ result' = <<programs[firstMatch(programs, outputs)]>>
    /\ pc' = "done"
    /\ UNCHANGED <<terminals, nums, outputs, programs, previous, round>>

\* the for loop ends without a return: next iteration of while True
CheckLoop ==
    /\ pc = "check"
    /\ \A i \in 1..Len(programs) : ~match(programs[i], outputs)
    /\ pc' = "expand"
    /\ UNCHANGED <<terminals, nums, outputs, programs, previous, result, round>>

Next == Expand \/ Collapse \/ CheckReturn \/ CheckLoop

Spec == Init /\ [][Next]_vars

(* ------------------------ notions used by the properties ---------------- *)

Alphabet == {terminals[i] : i \in 1..Len(terminals)}

Counts == {nums[i] : i \in 1..Len(nums)}

Terminal(s) == [content |-> s, name |-> "terminal", child |-> <<>>]

Repeat(n, p) == [content |-> n, name |-> "repeat", child |-> <<p>>]

Group(s, p) == [content |-> s, name |-> "group", child |-> <<p>>]

\* number of nodes of a program
RECURSIVE Size(_)
Size(node) == IF node.name = "terminal" THEN 1 ELSE 1 + Size(node.child[1])

\* every program built from a Terminal with at most k rule applications
RECURSIVE TreesUpTo(_)
TreesUpTo(k) ==
    IF k = 0 THEN {Terminal(s) : s \in Alphabet}
    ELSE LET T == TreesUpTo(k - 1)
         IN  T \cup {Repeat(n, p) : n \in Counts, p \in T}
               \cup {Group(s, p) : s \in Alphabet, p \in T}

Min(S) == CHOOSE x \in S : \A y \in S : x <= y

\* the strings from which one rule application yields the string s (counts >= 2)
ChildStrings(s) ==
    (IF Len(s) >= 2 /\ s[1] \in Alphabet THEN {Tail(s)} ELSE {})
    \cup {SubSeq(s, 1, Len(s) \div n) :
            n \in {m \in Counts : /\ m >= 2
                                  /\ Len(s) >= 1
                                  /\ Len(s) % m = 0
                                  /\ Times(m, SubSeq(s, 1, Len(s) \div m)) = s}}

\* {d} with d the least number of rule applications of a program whose output
\* is s, found by taking s apart; {} when no program has output s
RECURSIVE MinRules(_)
MinRules(s) ==
    IF Len(s) = 1 /\ s[1] \in Alphabet THEN {0}
    ELSE LET ds == UNION {MinRules(ch) : ch \in ChildStrings(s)}
         IN  IF ds = {} THEN {} ELSE {1 + Min(ds)}

Producible(s) == MinRules(s) # {}

Outs(ps) == {interpret(ps[i]) : i \in 1..Len(ps)}

Returned == pc = "done" /\ Len(result) = 1

(* ------------------------------- claims --------------------------------- *)

\* C1: whenever the search returns a program, interpreting the returned
\* program gives exactly the target string.
C1_Soundness == pc = "done" => (Len(result) = 1 /\ interpret(result[1]) = outputs)

C1_Witness == Returned /\ result[1].name = "repeat" /\ interpret(result[1]) = outputs

\* C2: with alphabet a,b,c and counts 2,3,4 the search on "aaa" returns
\* Repeat(3, Terminal a), rendered "3(a)", and on "ababab" returns
\* Repeat(3, Group(a, Terminal b)), rendered "3(a(b))".
C2_Scenarios ==
    (terminals = <<ord.a, ord.b, ord.c>> /\ nums = <<2, 3, 4>> /\ pc = "done") =>
        /\ outputs = <<ord.a, ord.a, ord.a>> =>
              /\ result = <<Repeat(3, Terminal(ord.a))>>
              /\ render(result[1]) = <<ord.zero + 3, ord.lp, ord.a, ord.rp>>
        /\ outputs = <<ord.a, ord.b, ord.a, ord.b, ord.a, ord.b>> =>
              /\ result = <<Repeat(3, Group(ord.a, Terminal(ord.b)))>>
              /\ render(result[1]) =
                    <<ord.zero + 3, ord.lp, ord.a, ord.lp, ord.b, ord.rp, ord.rp>>

C2_Witness ==
    /\ terminals = <<ord.a, ord.b, ord.c>> /\ nums = <<2, 3, 4>>
    /\ Returned
    /\ outputs = <<ord.a, ord.b, ord.a, ord.b, ord.a, ord.b>>
    /\ render(result[1]) = <<ord.zero + 3, ord.lp, ord.a, ord.lp, ord.b, ord.rp, ord.rp>>

SingleSymbol == Len(outputs) = 1 /\ outputs[1] \in Alphabet

\* C3 as stated: a target that is a single alphabet symbol s is answered by the
\* bare Terminal s, returned before any Expand step has been performed.
C3_NoExpandBeforeCheck ==
    (SingleSymbol /\ pc = "done") => (result = <<Terminal(outputs[1])>> /\ round = 0)

\* C3 amended: a target that is a single alphabet symbol s is answered by the
\* bare Terminal s in the first round, after exactly one Expand and Collapse;
\* the loop is never entered a second time.
C3_FirstRound ==
    SingleSymbol =>
        /\ round <= 1
        /\ pc = "expand" => round = 0
        /\ pc = "done" => (result = <<Terminal(outputs[1])>> /\ round = 1)

C3_Witness ==
    SingleSymbol /\ Returned /\ result = <<Terminal(outputs[1])>> /\ round = 1

\* C4: when no program of the grammar has the target as output the search
\* never returns, and every Check goes back to Expand.
C4_NoFailureState ==
    /\ [](~Producible(outputs) => (pc # "done" /\ result = None))
    /\ [][(~Producible(outputs) /\ pc = "check") => pc' = "expand"]_vars

C4_Witness ==
    ~Producible(outputs) /\ terminals # <<>> /\ pc = "expand" /\ round >= 2

Degenerate == terminals = <<>> \/ nums = <<>>

\* C5: with an empty alphabet or an empty count set the search stops with a
\* configuration error instead of looping: no round of the loop is performed.
C5_FailsFast == Degenerate => round = 0

\* the indices of ps whose output does not occur at a smaller index
FirstSeen(ps) ==
    LET outs == [i \in 1..Len(ps) |-> interpret(ps[i])]
    IN  {i \in 1..Len(ps) : \A j \in 1..(i - 1) : outs[j] # outs[i]}

\* post is pre restricted to its first-seen indices, in the order of pre
KeepsFirstSeen(pre, post) ==
    LET outs == [i \in 1..Len(pre) |-> interpret(pre[i])]
        keep == FirstSeen(pre)
        at   == [k \in 1..Len(post) |->
                    {i \in keep : outs[i] = interpret(post[k])}]
    IN  /\ Len(post) = Cardinality(keep)
        /\ \A k \in 1..Len(post) :
              /\ at[k] # {}
              /\ post[k] = pre[Min(at[k])]
        /\ \A k \in 1..(Len(post) - 1) : Min(at[k]) < Min(at[k + 1])

NoEqualOutputs(ps) == Cardinality(Outs(ps)) = Len(ps)

\* C6: Collapse leaves exactly the first program of each distinct output of the
\* sequence it filters, in their original order, so the frontier that is
\* checked and carried to the next round has no two programs of equal output.
C6_Collapse ==
    /\ [][pc = "collapse" => KeepsFirstSeen(programs, programs')]_vars
    /\ []((round >= 1 /\ pc # "collapse") => NoEqualOutputs(programs))

C6_Witness ==
    /\ pc = "check" /\ round = 2
    /\ Len(programs) < Len(previous) + Len(grow(previous))
    /\ Len(programs) > Len(previous)

\* C7: the program returned is the earliest program, in the Generator's
\* enumeration of the previous frontier, whose output is the target.
C7_LowestOrderMatch ==
    pc = "done" =>
        LET G == grow(previous)
            M == {i \in 1..Len(G) : interpret(G[i]) = outputs}
        IN  M # {} /\ result = <<G[Min(M)]>>

C7_Witness ==
    /\ Returned /\ round = 2
    /\ Cardinality({i \in 1..Len(grow(previous)) :
                       interpret(grow(previous)[i]) = outputs}) >= 2

\* C8: the Generator's output on P is, for each p of P in order, p itself,
\* then Repeat(n, p) for each count n in order, then Group(s, p) for each
\* symbol s in order, and nothing else: |P| * (1 + |counts| + |alphabet|)
\* elements.
C8_Generator ==
    pc = "collapse" =>
        LET P == previous
            G == SubSeq(programs, Len(P) + 1, Len(programs))
            w == 1 + Len(nums) + Len(terminals)
        IN  /\ Len(G) = Len(P) * w
            /\ \A i \in 1..Len(P) :
                  /\ G[(i - 1) * w + 1] = P[i]
                  /\ \A j \in 1..Len(nums) :
                        G[(i - 1) * w + 1 + j] = Repeat(nums[j], P[i])
                  /\ \A j \in 1..Len(terminals) :
                        G[(i - 1) * w + 1 + Len(nums) + j] = Group(terminals[j], P[i])

C8_Witness == pc = "collapse" /\ round = 2 /\ Len(previous) > Len(terminals)

\* C9 as stated: the sequence handed to Collapse is exactly the Generator's
\* output on the previous frontier, and the frontier after Collapse is
\* Filter(Generator(previous frontier)).
C9_ExpandIsGenerator ==
    /\ pc = "collapse" => programs = grow(previous)
    /\ pc = "check" => programs = filter_observationally_equivalent(grow(previous))

\* C9 amended: the sequence handed to Collapse is the previous frontier followed
\* by the Generator's output on it, and the frontier after Collapse is the
\* Filter of that sequence; it has the outputs of Filter(Generator(previous)).
C9_ExpandAppendsGenerator ==
    /\ pc = "collapse" => programs = previous \o grow(previous)
    /\ pc = "check" =>
          /\ programs = filter_observationally_equivalent(previous \o grow(previous))
          /\ Outs(programs) = Outs(filter_observationally_equivalent(grow(previous)))

C9_Witness == pc = "check" /\ round = 2 /\ previous # <<>>

\* C10: after the Collapse of round k the outputs of the frontier are the
\* outputs of all programs with at most k rule applications; a target whose
\* least number of rule applications is d is returned in round max(1, d), and
\* no program with fewer nodes than the returned one has the target as output.
C10_PruningLosesNothing ==
    /\ (round >= 1 /\ pc # "collapse") =>
          Outs(programs) = {interpret(t) : t \in TreesUpTo(round)}
    /\ \A d \in MinRules(outputs) :
          LET r == IF d = 0 THEN 1 ELSE d
          IN  /\ round <= r
              /\ pc = "expand" => round < r
              /\ pc = "done" =>
                    /\ round = r
                    /\ Size(result[1]) = d + 1
                    /\ \A t \in TreesUpTo(round) :
                          interpret(t) = outputs => Size(t) >= Size(result[1])

C10_Witness ==
    /\ Returned /\ round = 2 /\ MinRules(outputs) = {2}
    /\ Cardinality({t \in TreesUpTo(2) : interpret(t) = outputs}) >= 2

====
